---- MODULE Spec2Model ----
(***************************************************************************)
(* cita-database: a key-value store interface (trait Database) with two    *)
(* backends, MemoryDB (a HashMap behind an RwLock) and RocksDB (an engine  *)
(* handle that can be closed, reopened and restored from another           *)
(* directory).                                                             *)
(*                                                                         *)
(* Byte strings are sequences of byte values, Option<T> is <<>> (None) or  *)
(* <<x>> (Some(x)), a Result is a record [kind, val] whose kind is "Ok",   *)
(* "NotFound", "InvalidData", "Internal" or "Panic".                       *)
(***************************************************************************)
EXTENDS Integers, Sequences, FiniteSets, TLC

None == <<>>
Some(x) == <<x>>

\* The longest key and value lists handed to the batch operations.
MaxBatchLen == 2

(***************************************************************************)
(* database.rs: DataCategory; columns.rs: map_columns; rocksdb.rs: the     *)
(* column names format!("col{}", c), kept as the pair <<"col", c>>.         *)
(***************************************************************************)
DataCategory == {"State", "Headers", "Bodies", "Extra", "Trace", "AccountBloom", "Other"}

COL_STATE == <<"col", 0>>
COL_HEADERS == <<"col", 1>>
COL_BODIES == <<"col", 2>>
COL_EXTRA == <<"col", 3>>
COL_TRACE == <<"col", 4>>
COL_ACCOUNT_BLOOM == <<"col", 5>>
COL_OTHER == <<"col", 6>>

map_columns(category) ==
    CASE category = "State" -> COL_STATE
      [] category = "Headers" -> COL_HEADERS
      [] category = "Bodies" -> COL_BODIES
      [] category = "Extra" -> COL_EXTRA
      [] category = "Trace" -> COL_TRACE
      [] category = "AccountBloom" -> COL_ACCOUNT_BLOOM
      [] category = "Other" -> COL_OTHER

(***************************************************************************)
(* memorydb.rs: gen_key prefixes the key with the category's literal.      *)
(* The literals are spelled out as their ASCII bytes.                      *)
(***************************************************************************)
Prefix(category) ==
    CASE category = "State" -> <<115, 116, 97, 116, 101, 45>>
      [] category = "Headers" -> <<104, 101, 97, 100, 101, 114, 115, 45>>
      [] category = "Bodies" -> <<98, 111, 100, 105, 101, 115, 45>>
      [] category = "Extra" -> <<101, 120, 116, 114, 97, 45>>
      [] category = "Trace" -> <<116, 114, 97, 99, 101, 45>>
      [] category = "AccountBloom" ->
           <<97, 99, 99, 111, 117, 110, 116, 45, 98, 108, 111, 111, 109, 45>>
      [] category = "Other" -> <<111, 116, 104, 101, 114, 45>>

gen_key(category, key) ==
    IF category = None THEN key ELSE Prefix(category[1]) \o key

gen_keys(category, keys) ==
    [i \in 1..Len(keys) |-> gen_key(category, keys[i])]

(***************************************************************************)
(* The inputs the operations are called with: the default space and the    *)
(* category State with the keys "a" and "state-a", the category Headers    *)
(* with the key "a"; two values.                                           *)
(***************************************************************************)
Categories == {"State", "Headers"}
OptCategories == {None} \cup {Some(c) : c \in Categories}
Keys == {<<97>>, <<115, 116, 97, 116, 101, 45, 97>>}
KeysOf(category) == IF category = Some("Headers") THEN {<<97>>} ELSE Keys
Vals == {<<1>>, <<2>>}

SeqsUpTo(S, n) == UNION {[1..m -> S] : m \in 0..n}
KeyLists(category) == SeqsUpTo(KeysOf(category), MaxBatchLen)
ValLists == SeqsUpTo(Vals, MaxBatchLen)
Range(s) == {s[i] : i \in 1..Len(s)}

\* The arguments of insert_batch: every pair of lists of one length, and the
\* pairs of lists of different lengths (only their lengths are looked at)
\* made of the first key and the first value.
MismatchedArgs ==
    {a \in SeqsUpTo({<<97>>}, MaxBatchLen) \X SeqsUpTo({<<1>>}, MaxBatchLen) :
        Len(a[1]) # Len(a[2])}
BatchArgs(category) ==
    {a \in KeyLists(category) \X ValLists : Len(a[1]) = Len(a[2])} \cup MismatchedArgs

\* A finite map with one entry set, and with one entry removed.
MapPut(m, k, v) == [x \in DOMAIN m \cup {k} |-> IF x = k THEN v ELSE m[x]]
MapDel(m, k) == [x \in DOMAIN m \ {k} |-> m[x]]
MapGet(m, k) == IF k \in DOMAIN m THEN Some(m[k]) ELSE None
EmptyMap == [x \in {} |-> <<>>]

Ok(v) == [kind |-> "Ok", val |-> v]
Err(e) == [kind |-> e, val |-> None]
\* DatabaseError::Internal(detail)
Internal(detail) == [kind |-> "Internal", val |-> Some(detail)]

(***************************************************************************)
(* rocksdb.rs: the store paths of the callers, the backup path, the store  *)
(* instances (the variables db and new_db of the tests) and the datasets   *)
(* the engine keeps in directories.                                        *)
(***************************************************************************)
BACKUP_PATH == "backup_old_db"
StorePaths == {"rocksdb_test/db", "rocksdb_test/new_db"}
\* The directories two overlapping restore calls are given.
NewPaths == {"rocksdb_test/restore_new_db", "rocksdb_test/restore_new_db_2"}
Paths == StorePaths \cup NewPaths \cup {BACKUP_PATH}
Inst == {"db", "new_db"}

\* The dataset ids the engine can hand out; Config.category_num.
MaxDb == 4
DbIds == 1..MaxDb
CategoryNums == {None, Some(1), Some(2)}

\* A path holds no directory, an empty directory, or the dataset <<id>>.
NoDir == <<>>
EmptyDir == <<0>>
DEFAULT_CF == <<"default", 0>>

VARIABLES
    backend,      \* which implementation of Database the caller holds
    storage,      \* MemoryDB.storage: the HashMap<Vec<u8>, Vec<u8>>
    config,       \* the Config the caller opens its stores with (category_num)
    stores,       \* the RocksDB instances: path, config, db_info, restore's locals
    disk,         \* the filesystem: what each path holds
    dbs,          \* the engine's datasets: column families and their entries
    lockedFiles,  \* the engine's path locks: the paths a live DB handle holds
    last,         \* the last call: its name and what it returned
    threads,      \* the threads that share one store: the call each is inside
    rwlock        \* MemoryDB.storage's RwLock: the pairs <<thread, mode>> holding it

vars == <<backend, storage, config, stores, disk, dbs, lockedFiles, last, threads, rwlock>>
rocksVars == <<config, stores, disk, dbs, lockedFiles>>
threadVars == <<threads, rwlock>>

\* A call that names no category, and a call of the Database trait.
Call(op, res) == [op |-> op, cat |-> None, res |-> res, pre |-> None]
CallOn(op, category, res) == [op |-> op, cat |-> category, res |-> res, pre |-> None]

(***************************************************************************)
(* MemoryDB                                                                *)
(***************************************************************************)
Memory_get(category, key) == Ok(MapGet(storage, gen_key(category, key)))

Memory_get_batch(category, keys) ==
    Ok([i \in 1..Len(keys) |-> MapGet(storage, gen_keys(category, keys)[i])])

\* A contains that looks the key up without the category's prefix.
Memory_contains_raw(category, key) == Ok(key \in DOMAIN storage)

Memory_contains(category, key) == Ok(gen_key(category, key) \in DOMAIN storage)

\* A batch in which the first value of a repeated key stays.
InsertAll_first(m, keys, values) ==
    [x \in DOMAIN m \cup Range(keys) |->
        IF x \in Range(keys)
        THEN values[CHOOSE i \in 1..Len(keys) :
                       keys[i] = x /\ \A j \in 1..(i - 1) : keys[j] # x]
        ELSE m[x]]

RECURSIVE InsertAll(_, _, _)
InsertAll(m, keys, values) ==
    IF keys = <<>> THEN m
    ELSE InsertAll(MapPut(m, Head(keys), Head(values)), Tail(keys), Tail(values))

RECURSIVE RemoveAll(_, _)
RemoveAll(m, keys) ==
    IF keys = <<>> THEN m ELSE RemoveAll(MapDel(m, Head(keys)), Tail(keys))

MemoryDB_get(category, key) ==
    /\ backend = "MemoryDB"
    /\ last' = CallOn("get", category, Memory_get(category, key))
    /\ UNCHANGED <<threadVars, backend, storage, rocksVars>>

MemoryDB_get_batch(category, keys) ==
    /\ backend = "MemoryDB"
    /\ last' = CallOn("get_batch", category, Memory_get_batch(category, keys))
    /\ UNCHANGED <<threadVars, backend, storage, rocksVars>>

MemoryDB_insert(category, key, value) ==
    /\ backend = "MemoryDB"
    /\ storage' = MapPut(storage, gen_key(category, key), value)
    /\ last' = CallOn("insert", category, Ok(None))
    /\ UNCHANGED <<threadVars, backend, rocksVars>>

\* An insert_batch that writes the pairs it has before it compares the
\* lengths.
MemoryDB_insert_batch_unchecked(category, keys, values) ==
    /\ backend = "MemoryDB"
    /\ LET n == IF Len(keys) < Len(values) THEN Len(keys) ELSE Len(values)
       IN storage' = InsertAll(storage, gen_keys(category, SubSeq(keys, 1, n)),
                               SubSeq(values, 1, n))
    /\ last' = CallOn("insert_batch", category,
                      IF Len(keys) # Len(values) THEN Err("InvalidData") ELSE Ok(None))
    /\ UNCHANGED <<threadVars, backend, rocksVars>>

MemoryDB_insert_batch(category, keys, values) ==
    /\ backend = "MemoryDB"
    /\ IF Len(gen_keys(category, keys)) # Len(values)
       THEN /\ last' = CallOn("insert_batch", category, Err("InvalidData"))
            /\ UNCHANGED storage
       ELSE /\ storage' = InsertAll(storage, gen_keys(category, keys), values)
            /\ last' = CallOn("insert_batch", category, Ok(None))
    /\ UNCHANGED <<threadVars, backend, rocksVars>>

MemoryDB_contains(category, key) ==
    /\ backend = "MemoryDB"
    /\ last' = CallOn("contains", category, Memory_contains(category, key))
    /\ UNCHANGED <<threadVars, backend, storage, rocksVars>>

\* A remove that reports a key it does not find.
MemoryDB_remove_strict(category, key) ==
    /\ backend = "MemoryDB"
    /\ storage' = MapDel(storage, gen_key(category, key))
    /\ last' = CallOn("remove", category,
                      IF gen_key(category, key) \in DOMAIN storage
                      THEN Ok(None) ELSE Err("NotFound"))
    /\ UNCHANGED <<threadVars, backend, rocksVars>>

MemoryDB_remove(category, key) ==
    /\ backend = "MemoryDB"
    /\ storage' = MapDel(storage, gen_key(category, key))
    /\ last' = CallOn("remove", category, Ok(None))
    /\ UNCHANGED <<threadVars, backend, rocksVars>>

MemoryDB_remove_batch(category, keys) ==
    /\ backend = "MemoryDB"
    /\ storage' = RemoveAll(storage, gen_keys(category, keys))
    /\ last' = CallOn("remove_batch", category, Ok(None))
    /\ UNCHANGED <<threadVars, backend, rocksVars>>

(***************************************************************************)
(* RocksDB: the filesystem and the engine.  The engine is an external      *)
(* collaborator: DB::open takes the path lock (the tests show a second     *)
(* open of a locked path to fail), creates the dataset when the directory  *)
(* is missing and creates the missing column families; dropping the DB     *)
(* handle releases the lock.  Reads and writes of the engine do not fail.  *)
(***************************************************************************)
NoStore ==
    [made |-> FALSE, path |-> "", category_num |-> None, db_info |-> None,
     pc |-> "idle", new_db_path |-> "", backup |-> FALSE, pre |-> None]

EmptyDb == [cfs |-> {}, kv |-> EmptyMap]

IsOpen(i) == stores[i].db_info # None

\* restore takes &mut self and runs to its return: no other call of the
\* caller starts while an instance is inside restore.
Idle == \A i \in Inst : stores[i].pc = "idle"
Attached(i) == stores[i].db_info[1]

\* (0..config.category_num.unwrap_or(0)).map(|c| format!("col{}", c))
columns(category_num) ==
    {<<"col", c>> : c \in 0..((IF category_num = None THEN 0 ELSE category_num[1]) - 1)}

\* db.cf_handle(map_columns(category)).ok_or(NotFound)
get_column(i, category) ==
    IF map_columns(category) \in columns(stores[i].category_num)
    THEN Ok(map_columns(category))
    ELSE Err("NotFound")

path_exists(path) == disk[path] # NoDir

Referenced(d, st, dk) ==
    \/ \E p \in Paths : dk[p] = <<d>>
    \/ \E i \in Inst : st[i].db_info = <<d>>

\* A dataset that is neither in a directory nor held by a handle is gone.
Sweep(ds, st, dk) ==
    [d \in DbIds |-> IF Referenced(d, st, dk) THEN ds[d] ELSE EmptyDb]

FreeIds == {d \in DbIds : ~Referenced(d, stores, disk)}
FreshId == CHOOSE d \in FreeIds : \A e \in FreeIds : d <= e

\* A rename that replaces whatever the target holds.
RenameFails_overwriting(from, to) == disk[from] = NoDir

\* std::fs::rename of a directory: the source must exist, the target must
\* be missing or an empty directory; renaming a path to itself does nothing.
RenameFails(from, to) ==
    \/ disk[from] = NoDir
    \/ from # to /\ disk[to] \notin {NoDir, EmptyDir}

Renamed(from, to) ==
    IF from = to THEN disk
    ELSE [disk EXCEPT ![to] = disk[from], ![from] = NoDir]

\* Every category in the column family of State.
Cf_shared(category) == IF category = None THEN DEFAULT_CF ELSE COL_STATE

\* What a handle reads and writes: the entry <<column family, key>>.
Cf(category) == IF category = None THEN DEFAULT_CF ELSE map_columns(category[1])

\* A get that reads the dataset of the store's path whatever db_info holds.
Rocks_get_unclosed(i, category, key) ==
    IF ~stores[i].made \/ disk[stores[i].path] \in {NoDir, EmptyDir} THEN Ok(None)
    ELSE IF category # None /\ get_column(i, category[1]).kind # "Ok"
    THEN Err("NotFound")
    ELSE Ok(MapGet(dbs[disk[stores[i].path][1]].kv, <<Cf(category), key>>))

Rocks_get(i, category, key) ==
    IF ~IsOpen(i) THEN Ok(None)
    ELSE IF category # None /\ get_column(i, category[1]).kind # "Ok"
    THEN Err("NotFound")
    ELSE Ok(MapGet(dbs[Attached(i)].kv, <<Cf(category), key>>))

RECURSIVE Rocks_get_all(_, _, _)
Rocks_get_all(i, category, keys) ==
    IF keys = <<>> THEN Ok(<<>>)
    ELSE LET value == Rocks_get(i, category, Head(keys))
             more == Rocks_get_all(i, category, Tail(keys))
         IN IF value.kind # "Ok" THEN value
            ELSE IF more.kind # "Ok" THEN more
            ELSE Ok(<<value.val>> \o more.val)

Rocks_get_batch(i, category, keys) ==
    IF ~IsOpen(i) THEN Ok(<<>>) ELSE Rocks_get_all(i, category, keys)

Rocks_contains(i, category, key) ==
    IF ~IsOpen(i) THEN Ok(FALSE)
    ELSE IF category # None /\ get_column(i, category[1]).kind # "Ok"
    THEN Err("NotFound")
    ELSE Ok(<<Cf(category), key>> \in DOMAIN dbs[Attached(i)].kv)

CfKeys(category, keys) == [n \in 1..Len(keys) |-> <<Cf(category), keys[n]>>]

Opened(i, path) ==
    /\ IF path \in lockedFiles
       THEN /\ last' = Call("open", Err("Internal"))
            /\ UNCHANGED rocksVars
       ELSE /\ disk[path] \in {NoDir, EmptyDir} => FreeIds # {}
            /\ LET d == IF disk[path] \in {NoDir, EmptyDir} THEN FreshId ELSE disk[path][1]
                   st == [stores EXCEPT ![i] =
                            [NoStore EXCEPT !.made = TRUE, !.path = path,
                                            !.category_num = config, !.db_info = Some(d)]]
                   dk == [disk EXCEPT ![path] = <<d>>]
               IN /\ stores' = st
                  /\ disk' = dk
                  /\ dbs' = Sweep([dbs EXCEPT ![d].cfs = @ \cup columns(config)], st, dk)
                  /\ lockedFiles' =
                        (lockedFiles \ (IF IsOpen(i) THEN {stores[i].path} ELSE {}))
                            \cup {path}
            /\ last' = Call("open", Ok(None))
            /\ UNCHANGED config
    /\ UNCHANGED <<threadVars, backend, storage>>

\* open of a caller that makes one call at a time.
RocksDB_open(i, path) ==
    /\ backend = "RocksDB"
    /\ Idle
    /\ Opened(i, path)

\* open of a thread that owns the instance i, while the thread that owns
\* the other instance may be inside restore.
RocksDB_open_overlapping(i, path) ==
    /\ backend = "RocksDB"
    /\ stores[i].pc = "idle"
    /\ Opened(i, path)

\* self.close(): the DBInfo is dropped, and with it the engine's lock.
Closed(i) == [stores EXCEPT ![i].db_info = None]
\* A close that keeps the engine's lock.
Unlocked_never(i) == lockedFiles
Unlocked(i) == lockedFiles \ (IF IsOpen(i) THEN {stores[i].path} ELSE {})

\* A close that takes the handle out of db_info and panics when there is
\* none.
RocksDB_close_once(i) ==
    /\ backend = "RocksDB"
    /\ stores[i].made /\ Idle
    /\ stores' = Closed(i)
    /\ lockedFiles' = Unlocked(i)
    /\ dbs' = Sweep(dbs, Closed(i), disk)
    /\ last' = Call("close", IF IsOpen(i) THEN Ok(None) ELSE Err("Panic"))
    /\ UNCHANGED <<threadVars, backend, storage, config, disk>>

RocksDB_close(i) ==
    /\ backend = "RocksDB"
    /\ stores[i].made /\ Idle
    /\ stores' = Closed(i)
    /\ lockedFiles' = Unlocked(i)
    /\ dbs' = Sweep(dbs, Closed(i), disk)
    /\ last' = Call("close", Ok(None))
    /\ UNCHANGED <<threadVars, backend, storage, config, disk>>

RocksDB_get(i, category, key) ==
    /\ backend = "RocksDB"
    /\ stores[i].made /\ Idle
    /\ last' = CallOn("get", category, Rocks_get(i, category, key))
    /\ UNCHANGED <<threadVars, backend, storage, rocksVars>>

RocksDB_get_batch(i, category, keys) ==
    /\ backend = "RocksDB"
    /\ stores[i].made /\ Idle
    /\ last' = CallOn("get_batch", category, Rocks_get_batch(i, category, keys))
    /\ UNCHANGED <<threadVars, backend, storage, rocksVars>>

RocksDB_contains(i, category, key) ==
    /\ backend = "RocksDB"
    /\ stores[i].made /\ Idle
    /\ last' = CallOn("contains", category, Rocks_contains(i, category, key))
    /\ UNCHANGED <<threadVars, backend, storage, rocksVars>>

RocksDB_insert(i, category, key, value) ==
    /\ backend = "RocksDB"
    /\ stores[i].made /\ Idle
    /\ IF ~IsOpen(i)
       THEN /\ last' = CallOn("insert", category, Ok(None))
            /\ UNCHANGED dbs
       ELSE IF category # None /\ get_column(i, category[1]).kind # "Ok"
       THEN /\ last' = CallOn("insert", category, Err("NotFound"))
            /\ UNCHANGED dbs
       ELSE /\ dbs' = [dbs EXCEPT ![Attached(i)].kv = MapPut(@, <<Cf(category), key>>, value)]
            /\ last' = CallOn("insert", category, Ok(None))
    /\ UNCHANGED <<threadVars, backend, storage, config, stores, disk, lockedFiles>>

RocksDB_insert_batch(i, category, keys, values) ==
    /\ backend = "RocksDB"
    /\ stores[i].made /\ Idle
    /\ IF Len(keys) # Len(values)
       THEN /\ last' = CallOn("insert_batch", category, Err("InvalidData"))
            /\ UNCHANGED dbs
       ELSE IF ~IsOpen(i)
       THEN /\ last' = CallOn("insert_batch", category, Ok(None))
            /\ UNCHANGED dbs
       ELSE IF keys # <<>> /\ category # None /\ get_column(i, category[1]).kind # "Ok"
       THEN /\ last' = CallOn("insert_batch", category, Err("NotFound"))
            /\ UNCHANGED dbs
       ELSE /\ dbs' = [dbs EXCEPT ![Attached(i)].kv =
                          InsertAll(@, CfKeys(category, keys), values)]
            /\ last' = CallOn("insert_batch", category, Ok(None))
    /\ UNCHANGED <<threadVars, backend, storage, config, stores, disk, lockedFiles>>

RocksDB_remove(i, category, key) ==
    /\ backend = "RocksDB"
    /\ stores[i].made /\ Idle
    /\ IF ~IsOpen(i)
       THEN /\ last' = CallOn("remove", category, Ok(None))
            /\ UNCHANGED dbs
       ELSE IF category # None /\ get_column(i, category[1]).kind # "Ok"
       THEN /\ last' = CallOn("remove", category, Err("NotFound"))
            /\ UNCHANGED dbs
       ELSE /\ dbs' = [dbs EXCEPT ![Attached(i)].kv = MapDel(@, <<Cf(category), key>>)]
            /\ last' = CallOn("remove", category, Ok(None))
    /\ UNCHANGED <<threadVars, backend, storage, config, stores, disk, lockedFiles>>

RocksDB_remove_batch(i, category, keys) ==
    /\ backend = "RocksDB"
    /\ stores[i].made /\ Idle
    /\ IF ~IsOpen(i)
       THEN /\ last' = CallOn("remove_batch", category, Ok(None))
            /\ UNCHANGED dbs
       ELSE IF keys # <<>> /\ category # None /\ get_column(i, category[1]).kind # "Ok"
       THEN /\ last' = CallOn("remove_batch", category, Err("NotFound"))
            /\ UNCHANGED dbs
       ELSE /\ dbs' = [dbs EXCEPT ![Attached(i)].kv = RemoveAll(@, CfKeys(category, keys))]
            /\ last' = CallOn("remove_batch", category, Ok(None))
    /\ UNCHANGED <<threadVars, backend, storage, config, stores, disk, lockedFiles>>

(***************************************************************************)
(* RocksDB::iterator: IteratorMode::Start walks one column family, or the  *)
(* default one, in the order of the engine's bytewise comparator.          *)
(***************************************************************************)
\* The bytewise comparator: a is before b.
Less(a, b) ==
    \/ Len(a) < Len(b) /\ \A n \in 1..Len(a) : a[n] = b[n]
    \/ \E n \in 1..(IF Len(a) < Len(b) THEN Len(a) ELSE Len(b)) :
          /\ a[n] < b[n]
          /\ \A m \in 1..(n - 1) : a[m] = b[m]

\* IteratorMode::End: the last key first.
RECURSIVE FromEnd(_)
FromEnd(ks) ==
    IF ks = {} THEN <<>>
    ELSE LET k == CHOOSE x \in ks : \A y \in ks \ {x} : Less(y, x)
         IN <<k>> \o FromEnd(ks \ {k})

\* IteratorMode::Start: the first key first.
RECURSIVE FromStart(_)
FromStart(ks) ==
    IF ks = {} THEN <<>>
    ELSE LET k == CHOOSE x \in ks : \A y \in ks \ {x} : Less(x, y)
         IN <<k>> \o FromStart(ks \ {k})

\* The keys of one column family of a dataset.
KeysIn(d, cf) == {e[2] : e \in {x \in DOMAIN dbs[d].kv : x[1] = cf}}

\* What the returned iterator yields when it is driven to its end; None
\* when there is no iterator.  get_column(..).unwrap() panics.
Rocks_iterator(i, category) ==
    IF ~IsOpen(i) THEN Ok(None)
    ELSE IF category # None /\ get_column(i, category[1]).kind # "Ok"
    THEN Err("Panic")
    ELSE LET ks == FromStart(KeysIn(Attached(i), Cf(category)))
         IN Ok(Some([n \in 1..Len(ks) |->
                       <<ks[n], dbs[Attached(i)].kv[<<Cf(category), ks[n]>>]>>]))

RocksDB_iterator(i, category) ==
    /\ backend = "RocksDB"
    /\ stores[i].made /\ Idle
    /\ last' = CallOn("iterator", category, Rocks_iterator(i, category))
    /\ UNCHANGED <<threadVars, backend, storage, rocksVars>>

(***************************************************************************)
(* RocksDB::restore, one action per filesystem step.  What the caller saw  *)
(* when it called is kept until the call returns and is then part of the   *)
(* record of the call.                                                     *)
(***************************************************************************)
ReadArgs == {x \in OptCategories \X Keys : x[2] \in KeysOf(x[1])}

\* What the handle i reads, and what a handle of this Config reads from the
\* dataset d.
Reads(i) == [x \in ReadArgs |-> Rocks_get(i, x[1], x[2])]
StoredIn(d) ==
    [x \in ReadArgs |->
        IF x[1] # None /\ map_columns(x[1][1]) \notin columns(config)
        THEN Err("NotFound")
        ELSE Ok(MapGet(dbs[d].kv, <<Cf(x[1]), x[2]>>))]
StoredAt(path) ==
    IF disk[path] \in {NoDir, EmptyDir} THEN None ELSE Some(StoredIn(disk[path][1]))

\* The return of restore: its locals are gone.
Returned(st, i) ==
    [st EXCEPT ![i].pc = "idle", ![i].new_db_path = "", ![i].backup = FALSE,
               ![i].pre = None]
Return(i, res) == [op |-> "restore", cat |-> None, res |-> res, pre |-> stores[i].pre]

\* self.close(); let backup = !path_exists(&BACKUP_PATH);
RestoreCalled(i, new_db_path) ==
    /\ stores' = [Closed(i) EXCEPT
                    ![i].pc = IF path_exists(BACKUP_PATH) THEN "rename" ELSE "backup",
                    ![i].new_db_path = new_db_path,
                    ![i].backup = ~path_exists(BACKUP_PATH),
                    ![i].pre = Some([inst |-> i, new_db_path |-> new_db_path,
                                     backup |-> ~path_exists(BACKUP_PATH),
                                     open |-> IsOpen(i), disk |-> disk,
                                     reads |-> Reads(i),
                                     new |-> StoredAt(new_db_path),
                                     during |-> {j \in Inst : stores[j].pc # "idle"}])]
    /\ lockedFiles' = Unlocked(i)
    /\ dbs' = Sweep(dbs, Closed(i), disk)
    /\ UNCHANGED <<threadVars, backend, storage, config, disk, last>>

\* restore of a caller that makes one call at a time.
RocksDB_restore(i, new_db_path) ==
    /\ backend = "RocksDB"
    /\ stores[i].made /\ Idle
    /\ RestoreCalled(i, new_db_path)

\* restore of a thread that owns the instance i, while the thread that
\* owns the other instance may be inside its own restore.
RocksDB_restore_overlapping(i, new_db_path) ==
    /\ backend = "RocksDB"
    /\ stores[i].made /\ stores[i].pc = "idle"
    /\ RestoreCalled(i, new_db_path)

\* if backup { rename(&self.path, &BACKUP_PATH)?; }
RocksDB_restore_backup(i) ==
    /\ stores[i].pc = "backup"
    /\ IF RenameFails(stores[i].path, BACKUP_PATH)
       THEN /\ stores' = Returned(stores, i)
            /\ last' = Return(i, Internal("rename_backup"))
            /\ UNCHANGED disk
       ELSE /\ disk' = Renamed(stores[i].path, BACKUP_PATH)
            /\ stores' = [stores EXCEPT ![i].pc = "rename"]
            /\ UNCHANGED last
    /\ UNCHANGED <<threadVars, backend, storage, config, dbs, lockedFiles>>

\* match rename(&new_db_path, &self.path)
RocksDB_restore_rename(i) ==
    /\ stores[i].pc = "rename"
    /\ IF RenameFails(stores[i].new_db_path, stores[i].path)
       THEN IF stores[i].backup
            THEN /\ stores' = [stores EXCEPT ![i].pc = "rollback"]
                 /\ UNCHANGED <<disk, last>>
            ELSE /\ stores' = Returned(stores, i)
                 /\ last' = Return(i, Internal("rename_new"))
                 /\ UNCHANGED disk
       ELSE /\ disk' = Renamed(stores[i].new_db_path, stores[i].path)
            /\ stores' = [stores EXCEPT
                            ![i].pc = IF stores[i].backup THEN "cleanup" ELSE "reopen"]
            /\ UNCHANGED last
    /\ UNCHANGED <<threadVars, backend, storage, config, dbs, lockedFiles>>

\* A clean-up that leaves the backup where it is.
RocksDB_restore_keep_backup(i) ==
    /\ stores[i].pc = "cleanup"
    /\ stores' = [stores EXCEPT ![i].pc = "reopen"]
    /\ UNCHANGED <<threadVars, backend, storage, config, disk, dbs, lockedFiles, last>>

\* Ok(_) => if backup { remove_dir_all(&BACKUP_PATH)?; }
RocksDB_restore_cleanup(i) ==
    /\ stores[i].pc = "cleanup"
    /\ IF ~path_exists(BACKUP_PATH)
       THEN /\ stores' = Returned(stores, i)
            /\ last' = Return(i, Internal("remove_backup"))
            /\ UNCHANGED <<disk, dbs>>
       ELSE /\ disk' = [disk EXCEPT ![BACKUP_PATH] = NoDir]
            /\ dbs' = Sweep(dbs, stores, disk')
            /\ stores' = [stores EXCEPT ![i].pc = "reopen"]
            /\ UNCHANGED last
    /\ UNCHANGED <<threadVars, backend, storage, config, lockedFiles>>

\* Err(e) => if backup { rename(&BACKUP_PATH, &self.path)?; }
\*           return Err(DatabaseError::Internal(e.to_string()));
RocksDB_restore_rollback(i) ==
    /\ stores[i].pc = "rollback"
    /\ IF RenameFails(BACKUP_PATH, stores[i].path)
       THEN /\ last' = Return(i, Internal("rename_rollback"))
            /\ UNCHANGED disk
       ELSE /\ disk' = Renamed(BACKUP_PATH, stores[i].path)
            /\ last' = Return(i, Internal("rename_new"))
    /\ stores' = Returned(stores, i)
    /\ UNCHANGED <<threadVars, backend, storage, config, dbs, lockedFiles>>

\* Self::open(&self.path, &self.config).unwrap(): the handle is replaced,
\* or the call panics.
RocksDB_restore_reopen(i) ==
    /\ stores[i].pc = "reopen"
    /\ IF stores[i].path \in lockedFiles
       THEN /\ stores' = Returned(stores, i)
            /\ last' = Return(i, Err("Panic"))
            /\ UNCHANGED <<disk, dbs, lockedFiles>>
       ELSE /\ disk[stores[i].path] \in {NoDir, EmptyDir} => FreeIds # {}
            /\ LET path == stores[i].path
                   d == IF disk[path] \in {NoDir, EmptyDir} THEN FreshId ELSE disk[path][1]
                   st == Returned([stores EXCEPT ![i].db_info = Some(d)], i)
                   dk == [disk EXCEPT ![path] = <<d>>]
               IN /\ stores' = st
                  /\ disk' = dk
                  /\ dbs' = Sweep([dbs EXCEPT ![d].cfs = @ \cup columns(stores[i].category_num)],
                                  st, dk)
                  /\ lockedFiles' = lockedFiles \cup {path}
            /\ last' = Return(i, Ok(None))
    /\ UNCHANGED <<threadVars, backend, storage, config>>

\* The caller of the tests: create_dir(BACKUP_PATH) when it is missing,
\* remove_dir_all(BACKUP_PATH) when it exists.
create_dir ==
    /\ backend = "RocksDB"
    /\ Idle
    /\ ~path_exists(BACKUP_PATH)
    /\ disk' = [disk EXCEPT ![BACKUP_PATH] = EmptyDir]
    /\ last' = Call("create_dir", Ok(None))
    /\ UNCHANGED <<threadVars, backend, storage, config, stores, dbs, lockedFiles>>

remove_dir_all ==
    /\ backend = "RocksDB"
    /\ Idle
    /\ path_exists(BACKUP_PATH)
    /\ disk' = [disk EXCEPT ![BACKUP_PATH] = NoDir]
    /\ dbs' = Sweep(dbs, stores, disk')
    /\ last' = Call("remove_dir_all", Ok(None))
    /\ UNCHANGED <<threadVars, backend, storage, config, stores, lockedFiles>>

(***************************************************************************)
(* Threads sharing one store (Database: Send + Sync).  A call of a thread  *)
(* is a sequence of steps: in MemoryDB the lock of the RwLock, one step    *)
(* for each key under the lock, and the unlock at the return; in RocksDB   *)
(* one step for each key (a read of the engine, an entry put in the local  *)
(* WriteBatch, or a db.delete) and the db.write of the batch.              *)
(***************************************************************************)
Threads == {"writer", "reader"}
ReadOps == {"get", "contains", "get_batch"}
WriteOps == {"insert_batch", "remove_batch"}
ThreadCategories == {None, Some("State")}
ThreadKeys == <<<<97>>, <<98>>>>
ThreadVal == <<1>>

NoCall ==
    [pc |-> "idle", op |-> "", cat |-> None, keys |-> <<>>, n |-> 0, acc |-> <<>>,
     saw |-> {}]

\* The entries of the store the threads share.
Stored == IF backend = "MemoryDB" THEN storage ELSE dbs[Attached("db")].kv

\* The calls the threads make: the reader one of the keys or both, the
\* writer both keys with one value each.
ThreadCalls(t) ==
    IF t = "reader"
    THEN {<<op, <<ThreadKeys[n]>>>> : op \in {"get", "contains"}, n \in 1..Len(ThreadKeys)}
            \cup {<<"get_batch", ThreadKeys>>}
    ELSE {<<op, ThreadKeys>> : op \in WriteOps}

\* The batches the other threads are writing on a category.
Running(t, category) ==
    {threads[u].op : u \in {v \in Threads \ {t} : /\ threads[v].pc # "idle"
                                                   /\ threads[v].op \in WriteOps
                                                   /\ threads[v].cat = category}}

Thread_call(t, op, category, keys) ==
    /\ threads[t].pc = "idle"
    /\ backend = "RocksDB" => IsOpen("db") /\ Idle
    /\ threads' =
          [u \in Threads |->
              IF u = t
              THEN [pc |-> IF backend = "MemoryDB" THEN "lock" ELSE "loop",
                    op |-> op, cat |-> category, keys |-> keys, n |-> 1, acc |-> <<>>,
                    saw |-> Running(t, category)]
              ELSE IF threads[u].pc # "idle" /\ op \in WriteOps /\ threads[u].cat = category
              THEN [threads[u] EXCEPT !.saw = @ \cup {op}]
              ELSE threads[u]]
    /\ UNCHANGED <<backend, storage, rocksVars, last, rwlock>>

\* The return of a call: what it returned and the batches it ran beside.
Thread_return(t, res) ==
    [op |-> threads[t].op, cat |-> threads[t].cat, res |-> res,
     pre |-> Some([thread |-> t, keys |-> threads[t].keys, saw |-> threads[t].saw])]

\* A lock that every operation takes shared.
MemoryDB_lock_shared(t) ==
    /\ backend = "MemoryDB"
    /\ threads[t].pc = "lock"
    /\ \A h \in rwlock : h[2] = "read"
    /\ rwlock' = rwlock \cup {<<t, "read">>}
    /\ threads' = [threads EXCEPT ![t].pc = "loop"]
    /\ UNCHANGED <<backend, storage, rocksVars, last>>

\* storage.read() / storage.write()
MemoryDB_lock(t) ==
    /\ backend = "MemoryDB"
    /\ threads[t].pc = "lock"
    /\ IF threads[t].op \in ReadOps
       THEN \A h \in rwlock : h[2] = "read"
       ELSE rwlock = {}
    /\ rwlock' = rwlock \cup {<<t, IF threads[t].op \in ReadOps THEN "read" ELSE "write">>}
    /\ threads' = [threads EXCEPT ![t].pc = "loop"]
    /\ UNCHANGED <<backend, storage, rocksVars, last>>

\* One key of the call, under the lock.
MemoryDB_loop(t) ==
    /\ backend = "MemoryDB"
    /\ threads[t].pc = "loop"
    /\ LET c == threads[t]
           key == gen_key(c.cat, c.keys[c.n])
       IN /\ storage' =
                IF c.op \in {"insert", "insert_batch"} THEN MapPut(storage, key, ThreadVal)
                ELSE IF c.op \in {"remove", "remove_batch"} THEN MapDel(storage, key)
                ELSE storage
          /\ threads' =
                [threads EXCEPT
                    ![t].acc = IF c.op \in ReadOps THEN Append(@, MapGet(storage, key)) ELSE @,
                    ![t].n = @ + 1,
                    ![t].pc = IF c.n = Len(c.keys) THEN "unlock" ELSE "loop"]
    /\ UNCHANGED <<backend, rocksVars, last, rwlock>>

\* The guard is dropped and the call returns.
MemoryDB_unlock(t) ==
    /\ backend = "MemoryDB"
    /\ threads[t].pc = "unlock"
    /\ rwlock' = {h \in rwlock : h[1] # t}
    /\ last' = Thread_return(t,
                  IF threads[t].op = "get" THEN Ok(threads[t].acc[1])
                  ELSE IF threads[t].op = "contains" THEN Ok(threads[t].acc[1] # None)
                  ELSE IF threads[t].op = "get_batch" THEN Ok(threads[t].acc)
                  ELSE Ok(None))
    /\ threads' = [threads EXCEPT ![t] = NoCall]
    /\ UNCHANGED <<backend, storage, rocksVars>>

\* One key of the call on the engine: get_column, then db.get / db.get_cf,
\* batch.put / batch.put_cf / batch.delete_cf, or db.delete.
RocksDB_loop(t) ==
    /\ backend = "RocksDB"
    /\ threads[t].pc = "loop"
    /\ LET c == threads[t]
           entry == <<Cf(c.cat), c.keys[c.n]>>
           value == MapGet(dbs[Attached("db")].kv, entry)
           done == c.n = Len(c.keys)
       IN IF c.cat # None /\ get_column("db", c.cat[1]).kind # "Ok"
          THEN /\ last' = Thread_return(t, Err("NotFound"))
               /\ threads' = [threads EXCEPT ![t] = NoCall]
               /\ UNCHANGED dbs
          ELSE IF c.op \in ReadOps
          THEN /\ IF done
                  THEN /\ last' = Thread_return(t,
                                     IF c.op = "get" THEN Ok(value)
                                     ELSE IF c.op = "contains" THEN Ok(value # None)
                                     ELSE Ok(Append(c.acc, value)))
                       /\ threads' = [threads EXCEPT ![t] = NoCall]
                  ELSE /\ threads' = [threads EXCEPT ![t].acc = Append(@, value),
                                                     ![t].n = @ + 1]
                       /\ UNCHANGED last
               /\ UNCHANGED dbs
          ELSE /\ IF c.op = "remove_batch" /\ c.cat = None
                  THEN /\ dbs' = [dbs EXCEPT ![Attached("db")].kv = MapDel(@, entry)]
                       /\ threads' = [threads EXCEPT
                                         ![t].n = @ + 1,
                                         ![t].pc = IF done THEN "write" ELSE "loop"]
                  ELSE /\ threads' = [threads EXCEPT
                                         ![t].acc = Append(@, entry),
                                         ![t].n = @ + 1,
                                         ![t].pc = IF done THEN "write" ELSE "loop"]
                       /\ UNCHANGED dbs
               /\ UNCHANGED last
    /\ UNCHANGED <<backend, storage, config, stores, disk, lockedFiles, rwlock>>

\* db.write(batch): the entries of the batch at once.
RocksDB_write(t) ==
    /\ backend = "RocksDB"
    /\ threads[t].pc = "write"
    /\ dbs' = [dbs EXCEPT ![Attached("db")].kv =
                 IF threads[t].op = "insert_batch"
                 THEN InsertAll(@, threads[t].acc, [n \in 1..Len(threads[t].acc) |-> ThreadVal])
                 ELSE RemoveAll(@, threads[t].acc)]
    /\ last' = Thread_return(t, Ok(None))
    /\ threads' = [threads EXCEPT ![t] = NoCall]
    /\ UNCHANGED <<backend, storage, config, stores, disk, lockedFiles, rwlock>>

(***************************************************************************)
(* The caller of the Database trait holds one of the two backends; a       *)
(* RocksDB caller opens its store "db" with one Config.                    *)
(***************************************************************************)
Init ==
    /\ backend \in {"MemoryDB", "RocksDB"}
    /\ storage = EmptyMap
    /\ config \in (IF backend = "RocksDB" THEN CategoryNums ELSE {None})
    /\ stores = [i \in Inst |-> NoStore]
    /\ disk = [p \in Paths |-> NoDir]
    /\ dbs = [d \in DbIds |-> EmptyDb]
    /\ lockedFiles = {}
    /\ last = Call("new", Ok(None))
    /\ threads = [t \in Threads |-> NoCall]
    /\ rwlock = {}

MemoryNext ==
    \/ \E c \in OptCategories : \E k \in KeysOf(c) : MemoryDB_get(c, k)
    \/ \E c \in OptCategories : \E ks \in KeyLists(c) : MemoryDB_get_batch(c, ks)
    \/ \E c \in OptCategories : \E k \in KeysOf(c), v \in Vals : MemoryDB_insert(c, k, v)
    \/ \E c \in OptCategories : \E a \in BatchArgs(c) : MemoryDB_insert_batch(c, a[1], a[2])
    \/ \E c \in OptCategories : \E k \in KeysOf(c) : MemoryDB_contains(c, k)
    \/ \E c \in OptCategories : \E k \in KeysOf(c) : MemoryDB_remove(c, k)
    \/ \E c \in OptCategories : \E ks \in KeyLists(c) : MemoryDB_remove_batch(c, ks)

RocksNext(i, path) ==
    \/ RocksDB_open(i, path)
    \/ RocksDB_close(i)
    \/ \E c \in OptCategories : \E k \in KeysOf(c) : RocksDB_get(i, c, k)
    \/ \E c \in OptCategories : \E ks \in KeyLists(c) : RocksDB_get_batch(i, c, ks)
    \/ \E c \in OptCategories : \E k \in KeysOf(c), v \in Vals : RocksDB_insert(i, c, k, v)
    \/ \E c \in OptCategories : \E a \in BatchArgs(c) : RocksDB_insert_batch(i, c, a[1], a[2])
    \/ \E c \in OptCategories : \E k \in KeysOf(c) : RocksDB_contains(i, c, k)
    \/ \E c \in OptCategories : \E k \in KeysOf(c) : RocksDB_remove(i, c, k)
    \/ \E c \in OptCategories : \E ks \in KeyLists(c) : RocksDB_remove_batch(i, c, ks)

Next ==
    \/ MemoryNext
    \/ RocksNext("db", "rocksdb_test/db")

Spec == Init /\ [][Next]_vars

(***************************************************************************)
(* The caller of the restore test: two stores db and new_db, opened with   *)
(* open_default on the two store paths and written in the default space,   *)
(* and the backup path.                                                    *)
(***************************************************************************)
RestoreKey == <<97>>

InitRestore ==
    /\ Init
    /\ backend = "RocksDB"
    /\ config = None

NextRestore ==
    \E i \in Inst :
        \/ \E path \in StorePaths : RocksDB_open(i, path)
        \/ RocksDB_close(i)
        \/ \E v \in Vals : RocksDB_insert(i, None, RestoreKey, v)
        \/ \E new_db_path \in StorePaths : RocksDB_restore(i, new_db_path)
        \/ RocksDB_restore_backup(i)
        \/ RocksDB_restore_rename(i)
        \/ RocksDB_restore_cleanup(i)
        \/ RocksDB_restore_rollback(i)
        \/ RocksDB_restore_reopen(i)
        \/ create_dir
        \/ remove_dir_all

SpecRestore == InitRestore /\ [][NextRestore]_vars

(***************************************************************************)
(* Two threads, each with its own store: db at rocksdb_test/db and new_db  *)
(* at rocksdb_test/new_db, both Open, each with a directory of its own to  *)
(* restore from (which may be missing); the backup path is shared.  The    *)
(* steps of the two restore calls interleave.                              *)
(***************************************************************************)
CanonicalOf == [i \in Inst |-> IF i = "db" THEN "rocksdb_test/db" ELSE "rocksdb_test/new_db"]
NewOf ==
    [i \in Inst |-> IF i = "db" THEN "rocksdb_test/restore_new_db"
                    ELSE "rocksdb_test/restore_new_db_2"]
\* The datasets of a store: the one at its canonical path and the one it
\* restores from.
OriginalOf == [i \in Inst |-> IF i = "db" THEN 1 ELSE 2]
OwnOf == [i \in Inst |-> IF i = "db" THEN {<<1>>, <<3>>} ELSE {<<2>>, <<4>>}]

InitOverlap ==
    /\ backend = "RocksDB"
    /\ storage = EmptyMap
    /\ config = None
    /\ stores = [i \in Inst |->
                   [NoStore EXCEPT !.made = TRUE, !.path = CanonicalOf[i],
                                   !.db_info = Some(OriginalOf[i])]]
    /\ \E a \in {NoDir, <<3>>}, b \in {NoDir, <<4>>} :
          disk = [p \in Paths |->
                    IF p \in StorePaths
                    THEN (IF p = CanonicalOf["db"] THEN <<1>> ELSE <<2>>)
                    ELSE IF p = NewOf["db"] THEN a
                    ELSE IF p = NewOf["new_db"] THEN b
                    ELSE NoDir]
    /\ dbs = [d \in DbIds |-> EmptyDb]
    /\ lockedFiles = StorePaths
    /\ last = Call("open", Ok(None))
    /\ threads = [t \in Threads |-> NoCall]
    /\ rwlock = {}

NextOverlap ==
    \E i \in Inst :
        \/ RocksDB_restore_overlapping(i, NewOf[i])
        \/ RocksDB_restore_backup(i)
        \/ RocksDB_restore_rename(i)
        \/ RocksDB_restore_cleanup(i)
        \/ RocksDB_restore_rollback(i)
        \/ RocksDB_restore_reopen(i)

SpecOverlap == InitOverlap /\ [][NextOverlap]_vars

(***************************************************************************)
(* Two threads: one calls restore on db, the other opens new_db at the     *)
(* canonical path of db.                                                   *)
(***************************************************************************)
NextRace ==
    \/ RocksDB_restore_overlapping("db", NewOf["db"])
    \/ RocksDB_restore_backup("db")
    \/ RocksDB_restore_rename("db")
    \/ RocksDB_restore_cleanup("db")
    \/ RocksDB_restore_rollback("db")
    \/ RocksDB_restore_reopen("db")
    \/ RocksDB_open_overlapping("new_db", CanonicalOf["db"])

SpecRace == InitOverlap /\ [][NextRace]_vars

(***************************************************************************)
(* Two threads on one store: a writer of batches and a reader.             *)
(***************************************************************************)
InitThreads ==
    /\ Init
    /\ config \in {None, Some(1)}

NextThreads ==
    \/ ~stores["db"].made /\ RocksDB_open("db", "rocksdb_test/db")
    \/ \E t \in Threads :
          \/ \E c \in ThreadCategories : \E a \in ThreadCalls(t) : Thread_call(t, a[1], c, a[2])
          \/ MemoryDB_lock(t)
          \/ MemoryDB_loop(t)
          \/ MemoryDB_unlock(t)
          \/ RocksDB_loop(t)
          \/ RocksDB_write(t)

SpecThreads == InitThreads /\ [][NextThreads]_vars

(***************************************************************************)
(* The caller of batch_op: a store written by insert, insert_batch, remove *)
(* and remove_batch.                                                       *)
(***************************************************************************)
NextBatch ==
    \/ RocksDB_open("db", "rocksdb_test/db")
    \/ RocksDB_close("db")
    \/ \E c \in OptCategories : \E k \in KeysOf(c), v \in Vals :
          MemoryDB_insert(c, k, v) \/ RocksDB_insert("db", c, k, v)
    \/ \E c \in OptCategories : \E a \in BatchArgs(c) :
          MemoryDB_insert_batch(c, a[1], a[2]) \/ RocksDB_insert_batch("db", c, a[1], a[2])
    \/ \E c \in OptCategories : \E k \in KeysOf(c) :
          MemoryDB_remove(c, k) \/ RocksDB_remove("db", c, k)
    \/ \E c \in OptCategories : \E ks \in KeyLists(c) :
          MemoryDB_remove_batch(c, ks) \/ RocksDB_remove_batch("db", c, ks)

SpecBatch == Init /\ [][NextBatch]_vars

(***************************************************************************)
(* The caller of test_iterator and test_iterator_with_category: one store  *)
(* that is written, iterated and closed.                                   *)
(***************************************************************************)
InitIterator ==
    /\ Init
    /\ backend = "RocksDB"

NextIterator ==
    \/ RocksDB_open("db", "rocksdb_test/db")
    \/ RocksDB_close("db")
    \/ \E c \in OptCategories : \E k \in KeysOf(c), v \in Vals : RocksDB_insert("db", c, k, v)
    \/ \E c \in OptCategories : \E k \in KeysOf(c) : RocksDB_remove("db", c, k)
    \/ \E c \in OptCategories : RocksDB_iterator("db", c)

SpecIterator == InitIterator /\ [][NextIterator]_vars

(***************************************************************************)
(* The callers of test.rs run the same calls on a MemoryDB and on a        *)
(* RocksDB: here one caller holds both, the MemoryDB in storage and the    *)
(* RocksDB "db" opened with all seven column families, and hands every     *)
(* call to both.  The record of a call holds the two results, MemoryDB's   *)
(* first.                                                                  *)
(***************************************************************************)
AllColumns == Some(7)

\* The result of RocksDB's writes on the Open store "db": get_column is
\* asked once for every key.
Rocks_batch_result(category, keys) ==
    IF keys # <<>> /\ category # None /\ get_column("db", category[1]).kind # "Ok"
    THEN Err("NotFound")
    ELSE Ok(None)

Both_get(category, key) ==
    /\ IsOpen("db")
    /\ last' = CallOn("get", category,
                      <<Memory_get(category, key), Rocks_get("db", category, key)>>)
    /\ UNCHANGED <<threadVars, backend, storage, rocksVars>>

Both_get_batch(category, keys) ==
    /\ IsOpen("db")
    /\ last' = CallOn("get_batch", category,
                      <<Memory_get_batch(category, keys), Rocks_get_batch("db", category, keys)>>)
    /\ UNCHANGED <<threadVars, backend, storage, rocksVars>>

Both_contains(category, key) ==
    /\ IsOpen("db")
    /\ last' = CallOn("contains", category,
                      <<Memory_contains(category, key), Rocks_contains("db", category, key)>>)
    /\ UNCHANGED <<threadVars, backend, storage, rocksVars>>

Both_insert(category, key, value) ==
    /\ IsOpen("db")
    /\ storage' = MapPut(storage, gen_key(category, key), value)
    /\ LET res == Rocks_batch_result(category, <<key>>)
       IN /\ dbs' = IF res.kind # "Ok" THEN dbs
                    ELSE [dbs EXCEPT ![Attached("db")].kv =
                             MapPut(@, <<Cf(category), key>>, value)]
          /\ last' = CallOn("insert", category, <<Ok(None), res>>)
    /\ UNCHANGED <<threadVars, backend, config, stores, disk, lockedFiles>>

Both_insert_batch(category, keys, values) ==
    /\ IsOpen("db")
    /\ IF Len(keys) # Len(values)
       THEN /\ last' = CallOn("insert_batch", category,
                              <<Err("InvalidData"), Err("InvalidData")>>)
            /\ UNCHANGED <<storage, dbs>>
       ELSE /\ storage' = InsertAll(storage, gen_keys(category, keys), values)
            /\ LET res == Rocks_batch_result(category, keys)
               IN /\ dbs' = IF res.kind # "Ok" THEN dbs
                            ELSE [dbs EXCEPT ![Attached("db")].kv =
                                     InsertAll(@, CfKeys(category, keys), values)]
                  /\ last' = CallOn("insert_batch", category, <<Ok(None), res>>)
    /\ UNCHANGED <<threadVars, backend, config, stores, disk, lockedFiles>>

Both_remove(category, key) ==
    /\ IsOpen("db")
    /\ storage' = MapDel(storage, gen_key(category, key))
    /\ LET res == Rocks_batch_result(category, <<key>>)
       IN /\ dbs' = IF res.kind # "Ok" THEN dbs
                    ELSE [dbs EXCEPT ![Attached("db")].kv = MapDel(@, <<Cf(category), key>>)]
          /\ last' = CallOn("remove", category, <<Ok(None), res>>)
    /\ UNCHANGED <<threadVars, backend, config, stores, disk, lockedFiles>>

Both_remove_batch(category, keys) ==
    /\ IsOpen("db")
    /\ storage' = RemoveAll(storage, gen_keys(category, keys))
    /\ LET res == Rocks_batch_result(category, keys)
       IN /\ dbs' = IF res.kind # "Ok" THEN dbs
                    ELSE [dbs EXCEPT ![Attached("db")].kv =
                             RemoveAll(@, CfKeys(category, keys))]
          /\ last' = CallOn("remove_batch", category, <<Ok(None), res>>)
    /\ UNCHANGED <<threadVars, backend, config, stores, disk, lockedFiles>>

InitBoth ==
    /\ backend = "RocksDB"
    /\ storage = EmptyMap
    /\ config = AllColumns
    /\ stores = [i \in Inst |-> NoStore]
    /\ disk = [p \in Paths |-> NoDir]
    /\ dbs = [d \in DbIds |-> EmptyDb]
    /\ lockedFiles = {}
    /\ last = Call("new", Ok(None))
    /\ threads = [t \in Threads |-> NoCall]
    /\ rwlock = {}

NextBoth ==
    \/ ~stores["db"].made /\ RocksDB_open("db", "rocksdb_test/db")
    \/ \E c \in OptCategories : \E k \in KeysOf(c) : Both_get(c, k)
    \/ \E c \in OptCategories : \E ks \in KeyLists(c) : Both_get_batch(c, ks)
    \/ \E c \in OptCategories : \E k \in KeysOf(c), v \in Vals : Both_insert(c, k, v)
    \/ \E c \in OptCategories : \E a \in BatchArgs(c) : Both_insert_batch(c, a[1], a[2])
    \/ \E c \in OptCategories : \E k \in KeysOf(c) : Both_contains(c, k)
    \/ \E c \in OptCategories : \E k \in KeysOf(c) : Both_remove(c, k)
    \/ \E c \in OptCategories : \E ks \in KeyLists(c) : Both_remove_batch(c, ks)

SpecBoth == InitBoth /\ [][NextBoth]_vars

(***************************************************************************)
(* Two threads on one MemoryDB, each making any call of the trait: the     *)
(* single operations on one of the two keys, the batches on both.  A       *)
(* thread inside a call keeps running, and a thread that waits for the     *)
(* RwLock gets it when it is free again and again.                         *)
(***************************************************************************)
MemoryCalls ==
    {<<op, <<ThreadKeys[n]>>>> :
        op \in {"get", "contains", "insert", "remove"}, n \in 1..Len(ThreadKeys)}
        \cup {<<op, ThreadKeys>> : op \in {"get_batch", "insert_batch", "remove_batch"}}

\* The namespace of the calls: the locking is the same for all of them.
MemoryCategory == Some("State")

InitMemoryThreads ==
    /\ Init
    /\ backend = "MemoryDB"

NextMemoryThreads ==
    \E t \in Threads :
        \/ \E a \in MemoryCalls : Thread_call(t, a[1], MemoryCategory, a[2])
        \/ MemoryDB_lock(t)
        \/ MemoryDB_loop(t)
        \/ MemoryDB_unlock(t)

SpecMemoryThreads ==
    /\ InitMemoryThreads
    /\ [][NextMemoryThreads]_vars
    /\ \A t \in Threads :
          /\ WF_vars(MemoryDB_loop(t) \/ MemoryDB_unlock(t))
          /\ SF_vars(MemoryDB_lock(t))

(***************************************************************************)
(* The Database trait as its caller sees it, whichever backend it holds.   *)
(***************************************************************************)
get(category, key) ==
    IF backend = "MemoryDB" THEN Memory_get(category, key)
    ELSE Rocks_get("db", category, key)

contains(category, key) ==
    IF backend = "MemoryDB" THEN Memory_contains(category, key)
    ELSE Rocks_contains("db", category, key)

\* The steps of the trait's writing operations (the name of the call first:
\* the results of different calls are values of different kinds).
insert(category, key, value) ==
    /\ last'.op = "insert"
    /\ MemoryDB_insert(category, key, value) \/ RocksDB_insert("db", category, key, value)

insert_batch(category, keys, values) ==
    /\ last'.op = "insert_batch"
    /\ \/ MemoryDB_insert_batch(category, keys, values)
       \/ RocksDB_insert_batch("db", category, keys, values)

get_batch(category, keys) ==
    /\ last'.op = "get_batch"
    /\ MemoryDB_get_batch(category, keys) \/ RocksDB_get_batch("db", category, keys)

remove(category, key) ==
    /\ last'.op = "remove"
    /\ MemoryDB_remove(category, key) \/ RocksDB_remove("db", category, key)

remove_batch(category, keys) ==
    /\ last'.op = "remove_batch"
    /\ \/ MemoryDB_remove_batch(category, keys)
       \/ RocksDB_remove_batch("db", category, keys)

\* The in-memory store, or the persistent store Open with a namespace
\* behind the category.
Usable(category) ==
    \/ backend = "MemoryDB"
    \/ /\ backend = "RocksDB"
       /\ IsOpen("db")
       /\ category # None => get_column("db", category[1]).kind = "Ok"

InsertsKey(category, key) ==
    \/ \E v \in Vals : insert(category, key, v)
    \/ \E a \in BatchArgs(category) : key \in Range(a[1]) /\ insert_batch(category, a[1], a[2])

\* C1: in both backends, for a category with a namespace or the default
\* space, get(C,k) of a key never inserted returns absence; after a
\* successful insert(C,k,v) get(C,k) returns v and contains(C,k) is true,
\* also when the key held another value; after a successful remove(C,k)
\* get(C,k) returns absence.
C1_InsertGetRemove ==
    /\ backend = "MemoryDB" => \A c \in OptCategories : \A k \in KeysOf(c) : get(c, k) = Ok(None)
    /\ [][\A c \in OptCategories : \A k \in KeysOf(c) :
            /\ (Usable(c) /\ Usable(c)' /\ get(c, k) = Ok(None) /\ get(c, k)' # Ok(None))
                  => InsertsKey(c, k)
            /\ \A v \in Vals :
                  (insert(c, k, v) /\ last'.res.kind = "Ok" /\ Usable(c)')
                  => (get(c, k)' = Ok(Some(v)) /\ contains(c, k)' = Ok(TRUE))
            /\ (remove(c, k) /\ last'.res.kind = "Ok" /\ Usable(c)')
                  => get(c, k)' = Ok(None)]_vars

\* A step of insert_batch with lists of different lengths.
MismatchedBatch ==
    /\ last'.op = "insert_batch"
    /\ \E a \in MismatchedArgs : insert_batch(last'.cat, a[1], a[2])

\* C2: in both backends, Open or Closed, insert_batch with len(keys) #
\* len(values) returns InvalidData and the stored contents of every
\* (category, key) pair are after the call what they were before it.
C2_MismatchedBatch ==
    [][MismatchedBatch =>
          /\ last'.res = Err("InvalidData")
          /\ storage' = storage /\ dbs' = dbs /\ disk' = disk
          /\ \A x \in ReadArgs : get(x[1], x[2])' = get(x[1], x[2])]_vars

C2_Witness ==
    /\ backend = "RocksDB"
    /\ stores["db"].made /\ ~IsOpen("db")
    /\ disk[stores["db"].path] \notin {NoDir, EmptyDir}
    /\ dbs[disk[stores["db"].path][1]].kv # EmptyMap
    /\ last.op = "insert_batch" /\ last.res = Err("InvalidData")

IsPrefix(s, t) == Len(s) <= Len(t) /\ SubSeq(t, 1, Len(s)) = s

\* C3: a write (insert, insert_batch, remove, remove_batch) on a category
\* C1 never changes the result of get(C2,k2) or contains(C2,k2) of another
\* category C2, also for equal raw keys, in both backends; the namespaces
\* of two categories are distinct and none overlaps another.
C3_CategoryIsolation ==
    /\ \A c1, c2 \in DataCategory :
          c1 # c2 => /\ map_columns(c1) # map_columns(c2)
                     /\ ~IsPrefix(Prefix(c1), Prefix(c2))
    /\ [][(last'.op \in {"insert", "insert_batch", "remove", "remove_batch"}
              /\ last'.cat # None)
          => \A c2 \in Categories \ {last'.cat[1]} : \A k2 \in Keys :
                /\ get(Some(c2), k2)' = get(Some(c2), k2)
                /\ contains(Some(c2), k2)' = contains(Some(c2), k2)]_vars

C3_Witness ==
    /\ last.op = "insert" /\ last.cat = Some("State") /\ last.res = Ok(None)
    /\ get(Some("State"), <<97>>) = Ok(Some(<<1>>))
    /\ get(Some("Headers"), <<97>>) = Ok(Some(<<2>>))

\* A step taken by close, and a step taken on the Closed store "db"; with
\* every_batch also an insert_batch of lists of different lengths is to
\* return Ok.
ClosedStoreStep(every_batch) ==
    /\ last'.op = "close" => dbs' = dbs /\ disk' = disk
    /\ (backend = "RocksDB" /\ stores["db"].made /\ ~IsOpen("db")) =>
          /\ last'.op = "get" => last'.res = Ok(None)
          /\ last'.op = "contains" => last'.res = Ok(FALSE)
          /\ last'.op \in {"insert", "remove", "remove_batch"} => last'.res = Ok(None)
          /\ last'.op = "insert_batch" =>
                \/ last'.res = Ok(None)
                \/ /\ ~every_batch
                   /\ \E a \in MismatchedArgs : insert_batch(last'.cat, a[1], a[2])
          /\ last'.op # "open" => dbs' = dbs /\ disk' = disk
          /\ last'.op = "open" =>
                /\ last'.res.kind = "Ok" /\ IsOpen("db")'
                /\ Reads("db")' = StoredIn(disk[stores["db"].path][1])

\* C4: on a persistent store, after close() every get and contains returns
\* absence/false, every insert, remove and remove_batch and every
\* insert_batch of as many keys as values returns Ok, none of them changes
\* the dataset on disk, and a new open at the same path and configuration
\* reads exactly what the dataset held at the close.
C4_CloseReopen == [][ClosedStoreStep(FALSE)]_vars

C4_Witness ==
    /\ backend = "RocksDB" /\ IsOpen("db")
    /\ last.op = "open" /\ last.res.kind = "Ok"
    /\ get(None, <<97>>) = Ok(Some(<<1>>))

\* C4 as stated: after close() every insert_batch returns Ok as well.
C4_EveryWriteOk == [][ClosedStoreStep(TRUE)]_vars

(***************************************************************************)
(* restore, seen from the state in which it has just returned: Pre is what *)
(* the caller saw at the call.                                             *)
(***************************************************************************)
Pre == last.pre[1]
Canonical == stores[Pre.inst].path
RestoreReturns == last.op = "restore" /\ Idle

\* restore was called on an Open store, with no directory at the backup
\* path and a dataset at new_storage_path.
RestoreCase ==
    /\ RestoreReturns
    /\ Pre.open
    /\ Pre.disk[BACKUP_PATH] = NoDir
    /\ Pre.new # None

\* restore returned Ok, the store is Open and reads the contents of the
\* dataset that was at new_storage_path, and neither the backup path nor
\* new_storage_path holds a directory.
RestoreDone ==
    /\ last.res = Ok(None)
    /\ IsOpen(Pre.inst)
    /\ Reads(Pre.inst) = Pre.new[1]
    /\ disk[BACKUP_PATH] = NoDir
    /\ disk[Pre.new_db_path] = NoDir

\* C5: restore on an Open store, with no directory at the backup path, a
\* dataset at a new_storage_path that is not the canonical path and a
\* directory at the canonical path, returns Ok, the store is Open and reads
\* the contents of that dataset, and neither the backup path nor
\* new_storage_path holds a directory.
C5_RestoreReplaces ==
    (RestoreCase /\ Pre.new_db_path # Canonical /\ Pre.disk[Canonical] # NoDir)
        => RestoreDone

C5_Witness ==
    /\ RestoreCase /\ RestoreDone
    /\ Pre.new_db_path # Canonical /\ Pre.disk[Canonical] # NoDir
    /\ Pre.reads[<<None, RestoreKey>>] = Ok(Some(<<2>>))
    /\ Pre.new[1][<<None, RestoreKey>>] = Ok(Some(<<1>>))

\* C5 as stated: the same for every new_storage_path that holds a dataset,
\* whatever the canonical path holds.
C5_RestoreSucceeds == RestoreCase => RestoreDone

\* C6: when a directory exists at the backup path at the call, restore
\* returns Internal, the backup directory is what it was, and the dataset
\* of new_storage_path is not moved to the canonical path, whatever the
\* canonical path and new_storage_path hold.
C6_StaleBackupAborts ==
    (RestoreReturns /\ Pre.disk[BACKUP_PATH] # NoDir)
        => /\ last.res.kind = "Internal"
           /\ disk[BACKUP_PATH] = Pre.disk[BACKUP_PATH]
           /\ disk[Canonical] = Pre.disk[Canonical]
           /\ disk[Pre.new_db_path] = Pre.disk[Pre.new_db_path]

\* C7: after a restore that fails with a directory at the backup path, the
\* store is Open again and reads what it read before the call.
C7_FailedRestoreTransparent ==
    (RestoreReturns /\ Pre.open /\ Pre.disk[BACKUP_PATH] # NoDir
        /\ last.res.kind = "Internal")
        => /\ IsOpen(Pre.inst)
           /\ Reads(Pre.inst) = Pre.reads

\* C8: when the rename to the backup path succeeded and the rename of
\* new_storage_path fails, restore renames the backup back, returns
\* Internal with the detail of the failed rename, and the directories, the
\* handle state and the readable contents are those before the call.
C8_RollbackRestoresAll ==
    (RestoreReturns /\ Pre.open /\ Pre.backup
        /\ last.res \in {Internal("rename_new"), Internal("rename_rollback")})
        => /\ last.res = Internal("rename_new")
           /\ disk = Pre.disk
           /\ IsOpen(Pre.inst)
           /\ Reads(Pre.inst) = Pre.reads

\* C9: between any two filesystem steps of a restore the canonical path
\* holds a complete dataset, the original one or the new one.
C9_CanonicalAlwaysPresent ==
    \A i \in Inst :
        (stores[i].pc # "idle" /\ stores[i].pre[1].disk[stores[i].path] # NoDir)
            => /\ disk[stores[i].path] \notin {NoDir, EmptyDir}
               /\ disk[stores[i].path] \in
                     {stores[i].pre[1].disk[stores[i].path],
                      stores[i].pre[1].disk[stores[i].new_db_path]}

\* The locks held are the paths of the Open stores, one store a path.
LockHeldWhileOpen ==
    /\ lockedFiles = {stores[i].path : i \in {j \in Inst : IsOpen(j)}}
    /\ \A i, j \in Inst : (IsOpen(i) /\ IsOpen(j) /\ stores[i].path = stores[j].path) => i = j

\* An open of a locked path fails and changes nothing, an open of an
\* unlocked path succeeds, the close of an Open store releases its path.
OpenOrCloseStep ==
    /\ last'.op = "open" =>
          \A i \in Inst, path \in StorePaths :
             RocksDB_open(i, path) =>
                IF path \in lockedFiles
                THEN last'.res = Err("Internal") /\ UNCHANGED rocksVars
                ELSE last'.res = Ok(None) /\ IsOpen(i)' /\ stores'[i].path = path
    /\ last'.op = "close" =>
          \A i \in Inst :
             (IsOpen(i) /\ RocksDB_close(i)) => stores[i].path \notin lockedFiles'

\* C10: while a store is Open on a path every other open of that path
\* fails with Internal and leaves the first store as it is, and after its
\* close an open of the path succeeds: in every reachable state at most one
\* live handle holds the lock of a path, the lock is held exactly while its
\* store is Open, and close releases it.
C10_PathLock == []LockHeldWhileOpen /\ [][OpenOrCloseStep]_vars

C10_Witness ==
    /\ last = Call("open", Err("Internal"))
    /\ \E i \in Inst : IsOpen(i) /\ stores[i].path \in lockedFiles
    /\ \E i \in Inst : stores[i].made /\ ~IsOpen(i)

\* C11: in both backends, Open or Closed, a get_batch(C, keys) that returns
\* Ok returns exactly len(keys) slots, slot n being what get(C, keys[n])
\* gives, in the order of the keys; on a Closed store len(keys) absent
\* slots.
C11_GetBatchSlots ==
    [][last'.op = "get_batch" =>
          \A ks \in KeyLists(last'.cat) :
             (get_batch(last'.cat, ks) /\ last'.res.kind = "Ok")
                => last'.res.val = [n \in 1..Len(ks) |-> get(last'.cat, ks[n]).val]]_vars

\* A result of get_batch on the two keys with one present and one absent.
Mixed(slots) == Len(slots) = 2 /\ (slots[1] = None) # (slots[2] = None)

\* C12: while a thread writes the two keys with insert_batch (matching
\* lengths), no get_batch of another thread that runs beside it (and
\* beside no remove_batch) returns one of the keys present and the other
\* absent, in both backends.
C12_InsertBatchAtomic ==
    (last.op = "get_batch" /\ last.pre # None /\ last.res.kind = "Ok"
        /\ "remove_batch" \notin last.pre[1].saw)
        => ~Mixed(last.res.val)

\* A step in which the thread t reads the store, a remove_batch running on
\* the category c, and the store holding one of the two keys of c.
ReadStep(t) ==
    /\ threads[t].pc = "loop" /\ threads[t].op \in ReadOps
    /\ threads'[t] # threads[t]
Removing(c) ==
    \E w \in Threads :
        threads[w].pc # "idle" /\ threads[w].op = "remove_batch" /\ threads[w].cat = c
MixedStore(c) ==
    IF backend = "MemoryDB"
    THEN (gen_key(c, ThreadKeys[1]) \in DOMAIN storage)
            # (gen_key(c, ThreadKeys[2]) \in DOMAIN storage)
    ELSE (<<Cf(c), ThreadKeys[1]>> \in DOMAIN Stored) # (<<Cf(c), ThreadKeys[2]>> \in DOMAIN Stored)

\* C13: in both backends, with and without a category, no thread reads the
\* store while a remove_batch has removed one key of its batch and not yet
\* the other, and a remove_batch that returns an error has removed none of
\* its keys.
C13_RemoveBatchAtomic ==
    [][\A t \in Threads :
          /\ (ReadStep(t) /\ Removing(threads[t].cat)) => ~MixedStore(threads[t].cat)
          /\ (threads[t].op = "remove_batch" /\ threads[t].pc # "idle"
                 /\ threads'[t].pc = "idle" /\ last'.res.kind # "Ok")
                => (threads[t].n = 1 /\ Stored' = Stored)]_vars

\* The arguments of insert_batch with as many keys as values, and the
\* place of the last occurrence of a key in a list.
EqualArgs(category) == BatchArgs(category) \ MismatchedArgs
LastIndex(keys, key) ==
    CHOOSE i \in 1..Len(keys) : keys[i] = key /\ \A j \in (i + 1)..Len(keys) : keys[j] # key

\* C14: in both backends, with and without a category, insert_batch with
\* as many keys as values leaves what insert(C, keys[i], values[i]) for i
\* in order leaves: every key of the batch reads back its value, the last
\* one for a repeated key, every other key as before; remove_batch leaves
\* what remove(C, k) for each k leaves: every key of the batch absent,
\* every other key as before.
C14_BatchAsSequence ==
    [][\A c \in OptCategories :
          (last'.op \in {"insert_batch", "remove_batch"} /\ last'.cat = c) =>
             /\ (last'.op = "insert_batch" /\ last'.res.kind = "Ok" /\ Usable(c)) =>
                   \A a \in EqualArgs(c) :
                      insert_batch(c, a[1], a[2]) =>
                         \A k \in KeysOf(c) :
                            get(c, k)' = IF k \in Range(a[1])
                                         THEN Ok(Some(a[2][LastIndex(a[1], k)]))
                                         ELSE get(c, k)
             /\ (last'.op = "remove_batch" /\ last'.res.kind = "Ok" /\ Usable(c)) =>
                   \A ks \in KeyLists(c) :
                      remove_batch(c, ks) =>
                         \A k \in KeysOf(c) :
                            get(c, k)' = IF k \in Range(ks) THEN Ok(None) ELSE get(c, k)
             /\ ~Usable(c) => (storage' = storage /\ dbs' = dbs)]_vars

C14_Witness ==
    /\ last.op = "insert_batch" /\ last.cat = Some("State") /\ last.res = Ok(None)
    /\ get(Some("State"), <<97>>) = Ok(Some(<<2>>))
    /\ get(Some("State"), <<115, 116, 97, 116, 101, 45, 97>>) = Ok(Some(<<1>>))

\* The entries an iterator yielded.
Yielded == last.res.val[1]

\* C15: on an Open persistent store, the iterator of a category with a
\* namespace, or of the default space, yields exactly the pairs stored in
\* that namespace, each once and in ascending order of the key bytes; on a
\* Closed store there is no iterator and nothing is yielded.
C15_IteratorEntries ==
    (last.op = "iterator") =>
        /\ ~IsOpen("db") => last.res = Ok(None)
        /\ (IsOpen("db") /\ Usable(last.cat)) =>
              /\ last.res.kind = "Ok" /\ last.res.val # None
              /\ {Yielded[n] : n \in 1..Len(Yielded)} =
                    {<<k, Rocks_get("db", last.cat, k).val[1]>> :
                        k \in {x \in Keys : Rocks_get("db", last.cat, x).val # None}}
              /\ \A n, m \in 1..Len(Yielded) : n < m => Less(Yielded[n][1], Yielded[m][1])

\* Two keys of one namespace were yielded while another namespace held an
\* entry too.
C15_Witness ==
    /\ last.op = "iterator" /\ IsOpen("db") /\ last.res.kind = "Ok"
    /\ last.res.val # None /\ Len(last.res.val[1]) = 2
    /\ \E c \in OptCategories : c # last.cat /\ Usable(c)
          /\ \E k \in Keys : Rocks_get("db", c, k).val # None

\* The stored data and the handles are what they were.
SameStore == storage' = storage /\ dbs' = dbs /\ stores' = stores /\ disk' = disk

\* The store is as the call op on category left it; when the category is
\* usable, get(category, key) reads what that call left behind.
JustDid(op, category, key, read) ==
    /\ last.op = op /\ last.cat = category
    /\ Usable(category) => get(category, key) = Ok(read)

\* C16: in both backends and from every reachable state, an insert(C,k,v)
\* that follows the same insert changes nothing and returns what the first
\* returned; remove(C,k) of an absent key returns Ok and changes nothing;
\* a remove(C,k) that follows the same remove changes nothing and returns
\* what the first returned.
C16_Idempotence ==
    [][\A c \in OptCategories : \A k \in KeysOf(c) :
          /\ (last'.op = "insert" /\ last'.cat = c) =>
                \A v \in Vals :
                   (JustDid("insert", c, k, Some(v)) /\ insert(c, k, v)) =>
                      SameStore /\ last'.res = last.res
          /\ (last'.op = "remove" /\ last'.cat = c /\ remove(c, k)) =>
                /\ get(c, k) = Ok(None) => (SameStore /\ last'.res = Ok(None))
                /\ JustDid("remove", c, k, None) => (SameStore /\ last'.res = last.res)]_vars

\* A remove of a key of State has returned and left State without that
\* key, while the default space holds the key.
C16_Witness ==
    /\ last.op = "remove" /\ last.cat = Some("State") /\ last.res = Ok(None)
    /\ Usable(Some("State"))
    /\ get(Some("State"), <<97>>) = Ok(None)
    /\ get(None, <<97>>) = Ok(Some(<<1>>))

TraitOps == {"get", "get_batch", "insert", "insert_batch", "contains", "remove", "remove_batch"}

\* C17: on an Open persistent store every get, get_batch, insert,
\* insert_batch, contains, remove and remove_batch that names a category
\* without a namespace returns NotFound and changes no stored data, and the
\* same operations on a category with a namespace and on the default space
\* succeed (an insert_batch whose lists differ in length returns
\* InvalidData in either case).
C17_MissingNamespace ==
    [][(backend = "RocksDB" /\ IsOpen("db") /\ last'.op \in TraitOps) =>
          \A c \in OptCategories :
             last'.cat = c =>
                IF Usable(c)
                THEN \/ last'.res.kind = "Ok"
                     \/ last'.op = "insert_batch" /\ last'.res.kind = "InvalidData"
                ELSE /\ \/ last'.res.kind = "NotFound"
                        \/ last'.op = "insert_batch" /\ last'.res.kind = "InvalidData"
                     /\ dbs' = dbs]_vars

AllOptCategories == {None} \cup {Some(c) : c \in DataCategory}

\* C18: in both backends and in every store state, contains(C,k) returns
\* true exactly when get(C,k) returns a present value, false exactly when
\* get(C,k) returns absence, and an error exactly when get(C,k) returns
\* that error.
C18_ContainsIsGet ==
    \A c \in AllOptCategories : \A k \in Keys :
       /\ contains(c, k).kind = get(c, k).kind
       /\ get(c, k).kind = "Ok" => contains(c, k).val = (get(c, k).val # None)

\* A contains of the persistent store has returned true while the same key
\* is absent from another namespace and Headers has no namespace.
C18_Witness ==
    /\ last.op = "contains" /\ last.res.kind = "Ok" /\ last.res.val
    /\ \E k \in Keys :
          /\ get(last.cat, k).kind = "Ok" /\ get(last.cat, k).val # None
          /\ \E c \in OptCategories : get(c, k) = Ok(None) /\ contains(c, k) = Ok(FALSE)
    /\ backend = "RocksDB" /\ contains(Some("Headers"), <<97>>).kind = "NotFound"

\* C19: close of a persistent store never fails and is idempotent: from
\* Open it leads to Closed and releases the path, from Closed it returns
\* Ok and changes nothing, so that a close after a close leaves the state,
\* and with it the result of every later operation, as one close left it.
C19_CloseIdempotent ==
    [][(last'.op = "close") =>
          /\ last'.res = Ok(None)
          /\ ~IsOpen("db")'
          /\ stores["db"].path \notin lockedFiles'
          /\ ~IsOpen("db") => (SameStore /\ lockedFiles' = lockedFiles)
          /\ (last.op = "close") => (SameStore /\ lockedFiles' = lockedFiles)]_vars

\* A close has returned on a store whose directory holds written data.
C19_Witness ==
    /\ last.op = "close" /\ last.res = Ok(None) /\ ~IsOpen("db")
    /\ disk["rocksdb_test/db"] \notin {NoDir, EmptyDir}
    /\ dbs[disk["rocksdb_test/db"][1]].kv # EmptyMap

\* restore returned without an Open store while the dataset that was at
\* new_storage_path is at the canonical path.
NotReopened ==
    /\ RestoreReturns
    /\ Pre.new # None
    /\ disk[Canonical] = Pre.disk[Pre.new_db_path]
    /\ ~IsOpen(Pre.inst)

\* C20: when the renames of a restore succeed and the reopen of the engine
\* at the canonical path fails, restore returns Internal to its caller as
\* an error value and does not panic; the store is Closed and the new
\* dataset is at the canonical path.
C20_ReopenFailureReturned == NotReopened => last.res.kind = "Internal"

\* C21: the in-memory store and an Open persistent store with all seven
\* namespaces, given the same calls from the empty state, return the same
\* result in every call.
C21_SameResults == (last.op \in TraitOps) => last.res[1] = last.res[2]

\* C22: in the in-memory store an insert in the default space never
\* changes what get reads for a key of any of the seven categories, and an
\* insert in a category never changes what get reads in the default space.
C22_NoCollision ==
    [][(backend = "MemoryDB" /\ last'.op = "insert") =>
          \A c \in DataCategory : \A k \in Keys :
             /\ last'.cat = None => Memory_get(Some(c), k)' = Memory_get(Some(c), k)
             /\ last'.cat = Some(c) => Memory_get(None, k)' = Memory_get(None, k)]_vars

\* restore returned from the failed rename of the canonical directory to
\* the backup path, which it tried because no backup existed.
BackupRenameFailed ==
    /\ RestoreReturns
    /\ Pre.backup
    /\ last.res = Internal("rename_backup")

\* C24: when no backup exists and the rename of the canonical directory to
\* the backup path fails, restore returns Internal, the canonical path, the
\* backup path and new_storage_path hold what they held before the call,
\* and the store is Open or Closed as before and reads what it read before.
C24_FailedBackupNoChange ==
    BackupRenameFailed
        => /\ disk = Pre.disk
           /\ IsOpen(Pre.inst) = Pre.open
           /\ Reads(Pre.inst) = Pre.reads

\* C27: after any sequence of open, close and restore calls of the store
\* instances, no two Open handles are attached to the same dataset
\* directory.
C27_OneHandlePerDataset ==
    \A i, j \in Inst :
       (i # j /\ IsOpen(i) /\ IsOpen(j)) => Attached(i) # Attached(j)

\* A path holds a dataset.
IsData(x) == x \notin {NoDir, EmptyDir}

\* The step in which the restore of the instance i returns.
RestoreReturnsStep(i) == stores[i].pc # "idle" /\ stores'[i].pc = "idle"

\* C23: whenever a restore returns, with Ok or with any error, the
\* canonical path holds a complete dataset: the one it held at the call or
\* the one new_storage_path held at the call.
C23_CanonicalAtReturn ==
    [][\A i \in Inst :
          RestoreReturnsStep(i) =>
             /\ IsData(disk'[stores[i].path])
             /\ disk'[stores[i].path] \in
                   {stores[i].pre[1].disk[stores[i].path],
                    stores[i].pre[1].disk[stores[i].new_db_path]}]_vars

\* The canonical directory of the instance is at the backup path: its
\* restore has renamed it there and has neither deleted it nor renamed it
\* back.
UsesBackup(i) == stores[i].backup /\ stores[i].pc \in {"rename", "cleanup", "rollback"}
Other(i) == CHOOSE j \in Inst : j # i

\* C25: when two restore calls of two stores with different canonical
\* paths overlap, the two never have their directory at the backup path at
\* the same time, the backup path holds the dataset of the call that uses
\* it, no step of a call changes a backup path that holds the other
\* store's dataset, a call that saw the other's backup at its existence
\* check returns Internal, and whenever a store is outside restore its
\* canonical path holds its own original or its own new dataset.
C25_BackupNeverShared ==
    /\ [](/\ ~(UsesBackup("db") /\ UsesBackup("new_db"))
          /\ \A i \in Inst : UsesBackup(i) => disk[BACKUP_PATH] \in OwnOf[i]
          /\ \A i \in Inst : stores[i].pc = "idle" => disk[CanonicalOf[i]] \in OwnOf[i])
    /\ [][\A i \in Inst :
             /\ (stores'[i] # stores[i] /\ disk'[BACKUP_PATH] # disk[BACKUP_PATH])
                   => disk[BACKUP_PATH] \notin OwnOf[Other(i)]
             /\ (RestoreReturnsStep(i) /\ ~stores[i].pre[1].backup)
                   => last'.res.kind = "Internal"]_vars

\* A call that began inside the other's call has returned Internal while
\* the other has its directory at the backup path.
C25_Witness ==
    /\ last.op = "restore" /\ last.res.kind = "Internal"
    /\ Pre.during # {}
    /\ \E j \in Pre.during : UsesBackup(j) /\ disk[BACKUP_PATH] = <<OriginalOf[j]>>

\* C25 as stated: of two overlapping calls at most one uses the backup path
\* and the other returns Internal.  When the call that began inside the
\* other's call returns Ok, the other has not replaced its dataset.
C25_OtherReturnsInternal ==
    (last.op = "restore" /\ Idle /\ Pre.during # {} /\ last.res = Ok(None))
        => \A j \in Pre.during :
              ~(/\ Pre.disk[CanonicalOf[j]] = <<OriginalOf[j]>>
                /\ disk[CanonicalOf[j]] \in OwnOf[j] \ {<<OriginalOf[j]>>})


\* The hold of a thread on the RwLock, and the hold its call asks for.
HoldOf(t) == {h \in rwlock : h[1] = t}
ModeOf(op) == IF op \in ReadOps THEN "read" ELSE "write"

\* The lock is free for the call the thread is waiting with.
LockFree(t) ==
    IF ModeOf(threads[t].op) = "read"
    THEN \A h \in rwlock : h[2] = "read"
    ELSE rwlock = {}

\* The thread returns from its call in this step.
ReturnsStep(t) == threads[t].pc = "unlock" /\ threads'[t].pc = "idle"

\* The entry of a key of the threads is in the store.
Present(key) == gen_key(MemoryCategory, key) \in DOMAIN storage

\* One lock for one call, held from the first key to the return, by readers
\* together or by one writer alone; some thread inside a call can always move.
LockDiscipline ==
    /\ \A t \in Threads :
          HoldOf(t) = IF threads[t].pc \in {"loop", "unlock"}
                      THEN {<<t, ModeOf(threads[t].op)>>}
                      ELSE {}
    /\ \A h \in rwlock : h[2] = "write" => rwlock = {h}
    /\ (\E t \in Threads : threads[t].pc # "idle")
          => \E t \in Threads : \/ threads[t].pc \in {"loop", "unlock"}
                                \/ threads[t].pc = "lock" /\ LockFree(t)

\* The store changes only by the thread that holds the lock for writing, and
\* a call returns what the store holds at its return: the values and the
\* presence a read found, the entries an insert set, none that a remove took.
AtomicCalls ==
    \A t \in Threads :
        /\ (storage' # storage /\ threads'[t] # threads[t])
              => <<t, "write">> \in rwlock
        /\ (threads'[t] # threads[t] /\ threads[t].op \in {"insert", "insert_batch"})
              => \A k \in DOMAIN storage :
                    \/ k \in DOMAIN storage' /\ storage'[k] = storage[k]
                    \/ k = gen_key(threads[t].cat, threads[t].keys[threads[t].n])
        /\ ReturnsStep(t) =>
              LET c == threads[t]
              IN /\ last'.op = c.op
                 /\ c.op = "get" => last'.res = Memory_get(c.cat, c.keys[1])
                 /\ c.op = "contains" => last'.res = Memory_contains(c.cat, c.keys[1])
                 /\ c.op = "get_batch" => last'.res = Memory_get_batch(c.cat, c.keys)
                 /\ c.op \in {"insert", "insert_batch"} =>
                       /\ last'.res = Ok(None)
                       /\ \A n \in 1..Len(c.keys) :
                             Memory_get(c.cat, c.keys[n]) = Ok(Some(ThreadVal))
                 /\ c.op \in {"remove", "remove_batch"} =>
                       /\ last'.res = Ok(None)
                       /\ \A n \in 1..Len(c.keys) :
                             Memory_contains(c.cat, c.keys[n]) = Ok(FALSE)

\* An insert returns after the insert of another key by the other thread,
\* which has not entered the store since: both keys are in the store.
BothInserted ==
    \A t \in Threads :
        (/\ ReturnsStep(t)
         /\ threads[t].op = "insert"
         /\ last.op = "insert"
         /\ last.pre[1].thread # t
         /\ last.pre[1].keys # threads[t].keys)
            => /\ gen_key(MemoryCategory, threads[t].keys[1]) \in DOMAIN storage'
               /\ gen_key(MemoryCategory, last.pre[1].keys[1]) \in DOMAIN storage'

====
